---- MODULE Spec2Model ----
(***************************************************************************)
(* Model of ParticleConfig (examples/Other Examples/ParticleIO): the       *)
(* credential store kept in NVS, the per-endpoint throttle cache, the      *)
(* blocking serial configurator and the two asynchronous invokers          *)
(* (callFunctionAsync / getVariableAsync) with their FreeRTOS tasks.       *)
(***************************************************************************)
EXTENDS Integers, Sequences, FiniteSets, TLC

(***************************************************************************)
(* Program constants (Particle.h).                                         *)
(***************************************************************************)
MAX_API_KEY == 40
MAX_DEVICE_ID == 24
PARTICLE_FUNCTION_RETRY_COUNT == 1
PARTICLE_THROTTLE_SECONDS == 10
PARTICLE_THROTTLE_ENABLED == TRUE
PARTICLE_THROTTLE_CACHE_SIZE == 10
\* strlen(functionName) > 64, strlen(variableName) > 64
MAX_NAME == 64
\* strlen(functionArgument) > 1024
MAX_ARGUMENT == 1024
\* char resultBuffer[1025]; result.length() >= 1024
MAX_RESULT == 1024
\* char endpoint[80]
ENDPOINT_SIZE == 80
\* sizeof(particleData) = (MAX_API_KEY + 1) + (MAX_DEVICE_ID + 1)
SizeofParticleData == (MAX_API_KEY + 1) + (MAX_DEVICE_ID + 1)
\* HTTPClient's code for a read timeout, the one httpCode line 453 tests
HTTPC_ERROR_READ_TIMEOUT == -11

(***************************************************************************)
(* Bounds of the model.                                                    *)
(***************************************************************************)
\* millis() is an unsigned counter of MillisBits bits (32 on the target;
\* narrowed here so that a whole counter period fits the checker's integers)
MillisBits == 15
MillisModulus == 2 ^ MillisBits
\* how many times the clock is advanced in one run
MaxAdvances == 2
\* how many asynchronous requests the application makes in one run
MaxRequests == 2
\* how many connections HomeSpan reports in one run
MaxConnections == 2
\* how many times the device is restarted in one run
MaxRestarts == 1

(***************************************************************************)
(* C strings whose content never matters beyond identity and length are    *)
(* kept run-length encoded: ch repeated len times.                         *)
(***************************************************************************)
EmptyStr == [ch |-> "", len |-> 0]
Str(c, n) == IF n = 0 THEN EmptyStr ELSE [ch |-> c, len |-> n]
strlen(s) == s.len
\* the first max bytes of s (a bounded copy into a buffer of max + 1 bytes)
Truncate(s, max) == IF s.len <= max THEN s ELSE Str(s.ch, max)

Min(S) == CHOOSE x \in S : \A y \in S : x <= y

(***************************************************************************)
(* State.                                                                  *)
(***************************************************************************)
VARIABLES
  particleData,       \* struct { char apiKey[41]; char deviceId[25]; } particleData
  nvs,                \* the blob stored under "PDATA" in namespace PARTICLE
  nvsHandleOk,        \* whether nvs_open gave this instance a usable particleNVS
  wifi,               \* WiFi.status() == WL_CONNECTED
  connection,         \* HomeSpan's connection events: [count, notified]
  serialInputDisable, \* homeSpan.getSerialInputDisable()
  throttleCache,      \* ThrottleEntry throttleCache[PARTICLE_THROTTLE_CACHE_SIZE]
  throttleCacheSize,  \* int throttleCacheSize
  uptime,             \* milliseconds since boot; millis() is uptime mod 2^w
  flow,               \* the control flow (HomeSpan's loop): where it is blocked
  reqs,               \* the asynchronous requests made so far, by number
  advances,           \* how many times the clock was advanced (bounded)
  lastCheck,          \* observation: the checkThrottle call of the latest step
  lastDone,           \* observation: the request the latest step completed
  admittedAt,         \* per endpoint, uptime of its last admitted call (-1: none)
  boot,               \* observation of the store around the latest restart
  gate,               \* per flow of control, where it is inside checkThrottle
  lastEvent           \* observation: what the control flow did in the latest step

storeVars == <<particleData, nvs, nvsHandleOk>>
envVars == <<wifi, connection, serialInputDisable>>
cacheVars == <<throttleCache, throttleCacheSize, admittedAt, gate>>
clockVars == <<uptime, advances>>
vars == <<particleData, nvs, nvsHandleOk, wifi, connection, serialInputDisable,
          throttleCache, throttleCacheSize, uptime, flow, reqs, advances,
          lastCheck, lastDone, admittedAt, boot, gate, lastEvent>>

(***************************************************************************)
(* ThrottleGate: checkThrottle.                                            *)
(***************************************************************************)
Kinds == {"function", "variable"}
\* strlen("function") = strlen("variable") = 8
KindLen == 8

\* millis(): the wrapping counter
millis == uptime % MillisModulus

\* snprintf(endpoint, sizeof(endpoint), "%s:%s", endpointType, endpointName):
\* at most sizeof(endpoint) - 1 bytes are kept
Endpoint(kind, name) ==
  [kind |-> kind, name |-> Truncate(name, (ENDPOINT_SIZE - 1) - (KindLen + 1))]

\* a slot of throttleCache the program has not written yet
UnsetEntry == [endpoint |-> [kind |-> "", name |-> EmptyStr], lastCall |-> 0]

\* the difference taken as a signed number, without the counter's wrap
ElapsedSigned(nowv, lastCall) == nowv - lastCall

\* unsigned long elapsed = now - throttleCache[i].lastCall
Elapsed(nowv, lastCall) == ((nowv - lastCall) + MillisModulus) % MillisModulus

ThrottleWindow == PARTICLE_THROTTLE_SECONDS * 1000

\* a verdict of checkThrottle together with the cache the call leaves
Verdict(ok, cache, size) == [ok |-> ok, cache |-> cache, size |-> size]

\* a hit that, when admitted, moves the entry to the front of the cache
ThrottleHitMovingToFront(cache, size, nowv, i) ==
  IF Elapsed(nowv, cache[i].lastCall) < ThrottleWindow
  THEN Verdict(FALSE, cache, size)
  ELSE Verdict(TRUE,
               [j \in DOMAIN cache |->
                  IF j = 0 THEN [endpoint |-> cache[i].endpoint, lastCall |-> nowv]
                  ELSE IF j = i THEN cache[0]
                  ELSE cache[j]],
               size)

\* checkThrottle, the entry at slot i matches (the body of the if in the loop)
ThrottleHit(cache, size, nowv, i) ==
  IF Elapsed(nowv, cache[i].lastCall) < ThrottleWindow
  THEN Verdict(FALSE, cache, size)
  ELSE Verdict(TRUE, [cache EXCEPT ![i].lastCall = nowv], size)

\* an admission of a new endpoint that records nothing
ThrottleInsertForgetful(cache, size, nowv, endpoint) == Verdict(TRUE, cache, size)

\* checkThrottle, no entry matches and a slot is free: the entry is appended
ThrottleInsert(cache, size, nowv, endpoint) ==
  Verdict(TRUE,
          [cache EXCEPT ![size] = [endpoint |-> endpoint, lastCall |-> nowv]],
          size + 1)

\* a full cache that makes room by dropping its oldest entry
ThrottleFullEvicting(cache, size, nowv, endpoint) ==
  Verdict(TRUE,
          [i \in DOMAIN cache |->
             IF i = size - 1 THEN [endpoint |-> endpoint, lastCall |-> nowv]
             ELSE cache[i + 1]],
          size)

\* checkThrottle, no entry matches and the cache is full: admitted, no change
ThrottleFull(cache, size, nowv, endpoint) == Verdict(TRUE, cache, size)

\* ParticleConfig::checkThrottle: the verdict and the cache the call leaves
checkThrottle(cache, size, nowv, kind, name) ==
  IF ~PARTICLE_THROTTLE_ENABLED
  THEN Verdict(TRUE, cache, size)
  ELSE LET endpoint == Endpoint(kind, name)
           hits == {i \in 0 .. size - 1 : cache[i].endpoint = endpoint}
       IN  IF hits # {}
           THEN ThrottleHit(cache, size, nowv, Min(hits))
           ELSE IF size < PARTICLE_THROTTLE_CACHE_SIZE
                THEN ThrottleInsert(cache, size, nowv, endpoint)
                ELSE ThrottleFull(cache, size, nowv, endpoint)

(***************************************************************************)
(* HTTP response bodies are sequences of one-character strings, scanned    *)
(* the way the tasks scan an Arduino String (positions count from 0).      *)
(***************************************************************************)
NUL == "NUL"
\* String::charAt: 0 outside the string
charAt(s, i) == IF 0 <= i /\ i < Len(s) THEN s[i + 1] ELSE NUL
\* String::substring(left, right): [left, right)
substring(s, left, right) ==
  LET r == IF right > Len(s) THEN Len(s) ELSE right
  IN  IF left >= r THEN << >> ELSE SubSeq(s, left + 1, r)
\* String::indexOf(pattern, fromIndex): first position >= fromIndex, or -1
indexOf(s, pat, from) ==
  LET at == {i \in from .. Len(s) - Len(pat) :
               \A j \in 1 .. Len(pat) : s[i + j] = pat[j]}
  IN  IF from < 0 \/ at = {} THEN -1 ELSE Min(at)

Digits == {"0", "1", "2", "3", "4", "5", "6", "7", "8", "9"}
isdigit(c) == c \in Digits
DigitVal(c) ==
  CASE c = "0" -> 0 [] c = "1" -> 1 [] c = "2" -> 2 [] c = "3" -> 3 [] c = "4" -> 4
    [] c = "5" -> 5 [] c = "6" -> 6 [] c = "7" -> 7 [] c = "8" -> 8 [] c = "9" -> 9
isspace(c) == c \in {" ", "\t", "\n", "\r"}

\* long is 32 bits on the target; strtol saturates
LONG_MAX == 2147483647

\* the digits of s from position i on, accumulated onto acc, saturating
RECURSIVE AccDigits(_, _, _)
AccDigits(s, i, acc) ==
  IF ~isdigit(charAt(s, i)) THEN acc
  ELSE LET d == DigitVal(charAt(s, i))
       IN  IF acc > (LONG_MAX - d) \div 10 THEN LONG_MAX
           ELSE AccDigits(s, i + 1, acc * 10 + d)

\* String::toInt = atol: blanks, an optional sign, then digits; 0 if none
RECURSIVE SkipSpace(_, _)
SkipSpace(s, i) == IF isspace(charAt(s, i)) THEN SkipSpace(s, i + 1) ELSE i
toInt(s) ==
  LET i == SkipSpace(s, 0)
  IN  IF charAt(s, i) = "-" THEN 0 - AccDigits(s, i + 1, 0)
      ELSE IF charAt(s, i) = "+" THEN AccDigits(s, i + 1, 0)
      ELSE AccDigits(s, i, 0)

\* while(p < response.length() && (charAt(p) == ' ' || charAt(p) == '\t')) p++
RECURSIVE SkipBlanks(_, _)
SkipBlanks(s, p) ==
  IF p < Len(s) /\ charAt(s, p) \in {" ", "\t"} THEN SkipBlanks(s, p + 1) ELSE p

\* while(e < response.length() && (isdigit(charAt(e)) || charAt(e) == '-')) e++
RECURSIVE ScanNumber(_, _)
ScanNumber(s, e) ==
  IF e < Len(s) /\ (isdigit(charAt(s, e)) \/ charAt(s, e) = "-")
  THEN ScanNumber(s, e + 1) ELSE e

\* while(e < response.length() && charAt(e) != ',' && charAt(e) != '}') e++
RECURSIVE ScanToken(_, _)
ScanToken(s, e) ==
  IF e < Len(s) /\ charAt(s, e) # "," /\ charAt(s, e) # "}"
  THEN ScanToken(s, e + 1) ELSE e

\* String::trim
RECURSIVE TrimLeft(_)
TrimLeft(s) == IF s # << >> /\ isspace(Head(s)) THEN TrimLeft(Tail(s)) ELSE s
RECURSIVE TrimRight(_)
TrimRight(s) ==
  IF s # << >> /\ isspace(s[Len(s)]) THEN TrimRight(SubSeq(s, 1, Len(s) - 1)) ELSE s
trim(s) == TrimRight(TrimLeft(s))

ReturnValueKey == <<"\"", "r", "e", "t", "u", "r", "n", "_", "v", "a", "l", "u", "e", "\"", ":">>
ResultKey == <<"\"", "r", "e", "s", "u", "l", "t", "\"", ":">>

\* callFunctionTaskImpl, the httpCode == 200 arm: what the body yields
ParseReturnValue(response) ==
  LET returnPos == indexOf(response, ReturnValueKey, 0)
  IN  IF returnPos > 0
      THEN LET startPos == SkipBlanks(response, returnPos + Len(ReturnValueKey))
               endPos == ScanNumber(response, startPos)
           IN  [success |-> TRUE,
                returnValue |-> toInt(substring(response, startPos, endPos))]
      ELSE [success |-> FALSE, returnValue |-> -1]

\* if(result.length() >= 1024) result = result.substring(0, 1024)
Clip(result) ==
  IF Len(result) >= MAX_RESULT THEN substring(result, 0, MAX_RESULT) ELSE result

\* getVariableTaskImpl, the httpCode == 200 arm: what the body yields
ParseResult(response) ==
  LET resultPos == indexOf(response, ResultKey, 0)
  IN  IF resultPos > 0
      THEN LET startPos == SkipBlanks(response, resultPos + Len(ResultKey))
           IN  IF charAt(response, startPos) = "\""
               THEN LET endPos == indexOf(response, <<"\"">>, startPos + 1)
                    IN  IF endPos > startPos + 1
                        THEN [success |-> TRUE,
                              result |-> Clip(substring(response, startPos + 1, endPos))]
                        ELSE [success |-> FALSE, result |-> << >>]
               ELSE LET endPos == ScanToken(response, startPos)
                    IN  [success |-> TRUE,
                         result |-> Clip(trim(substring(response, startPos, endPos)))]
      ELSE [success |-> FALSE, result |-> << >>]

\* bodies a 200 response to a function call may carry
BodyReturn7 ==
  <<"{", "\"", "r", "e", "t", "u", "r", "n", "_", "v", "a", "l", "u", "e", "\"", ":", "7", "}">>
BodyReturnMinus1 ==
  <<"{", "\"", "i", "d", "\"", ":", "\"", "x", "\"", ",", "\"", "r", "e", "t", "u", "r", "n", "_", "v", "a", "l", "u", "e", "\"", ":", " ", "-", "1", "}">>
BodyNoReturnValue == <<"{", "\"", "o", "k", "\"", ":", "t", "r", "u", "e", "}">>
BodyReturnNull ==
  <<"{", "\"", "r", "e", "t", "u", "r", "n", "_", "v", "a", "l", "u", "e", "\"", ":", "n", "u", "l", "l", "}">>
FunctionBodies == {BodyReturn7, BodyReturnMinus1, BodyNoReturnValue, BodyReturnNull}

\* bodies a 200 response to a variable read may carry
BodyResultString ==
  <<"{", "\"", "r", "e", "s", "u", "l", "t", "\"", ":", "\"", "a", "b", "\"", "}">>
BodyResultNumber == <<"{", "\"", "r", "e", "s", "u", "l", "t", "\"", ":", "4", "2", "}">>
BodyNoResult == <<"{", "\"", "n", "a", "m", "e", "\"", ":", "\"", "t", "\"", "}">>
BodyResultEmpty == <<"{", "\"", "r", "e", "s", "u", "l", "t", "\"", ":", "\"", "\"", "}">>
\* {"result":"a\"b"}: a string with an escaped quote in it
BodyResultEscaped ==
  <<"{", "\"", "r", "e", "s", "u", "l", "t", "\"", ":", "\"", "a", "\\", "\"", "b", "\"", "}">>
\* "result":5}: the key at the very start of the body
BodyResultAtStart == <<"\"", "r", "e", "s", "u", "l", "t", "\"", ":", "5", "}">>
VariableBodies ==
  {BodyResultString, BodyResultNumber, BodyNoResult, BodyResultEmpty,
   BodyResultEscaped, BodyResultAtStart}

(***************************************************************************)
(* Inputs the environment may supply.                                      *)
(***************************************************************************)
\* the name the application passes: of exactly the limit
ValidNames == {Str("b", MAX_NAME)}
\* a name one byte over the limit
LongName == Str("c", MAX_NAME + 1)
Names == ValidNames \cup {LongName}
\* function arguments: exactly the limit, one byte over it
Arguments == {Str("x", MAX_ARGUMENT), Str("x", MAX_ARGUMENT + 1)}
\* the name the throttle gate is exercised with on its own, under either kind
ThrottleNames == ValidNames
\* endpoints whose admitted calls are observed
TestEndpoints == {Endpoint(k, n) : k \in Kinds, n \in ValidNames}
\* the i-th of the further distinct function names used to fill the cache
Filler(i) == Str("z", i)
\* clock advances: a millisecond, just under the window, and the rest of a
\* counter period after that
Deltas == {1, ThrottleWindow - 1, MillisModulus - (ThrottleWindow - 1)}

(***************************************************************************)
(* A checkThrottle call as made by the control flow: the cache is replaced *)
(* by the one the call leaves, and the call is observed.                   *)
(***************************************************************************)
InCache(e) == \E i \in 0 .. throttleCacheSize - 1 : throttleCache[i].endpoint = e

ThrottleUpdate(kind, name, res) ==
  LET e == Endpoint(kind, name)
  IN  /\ throttleCache' = res.cache
      /\ throttleCacheSize' = res.size
      /\ lastCheck' = [endpoint |-> e,
                       ok |-> res.ok,
                       known |-> InCache(e),
                       full |-> throttleCacheSize = PARTICLE_THROTTLE_CACHE_SIZE,
                       since |-> IF e \in DOMAIN admittedAt /\ admittedAt[e] >= 0
                                 THEN uptime - admittedAt[e] ELSE -1,
                       changed |-> res.cache # throttleCache
                                     \/ res.size # throttleCacheSize]
      /\ admittedAt' = IF res.ok /\ e \in DOMAIN admittedAt
                       THEN [admittedAt EXCEPT ![e] = uptime] ELSE admittedAt
      /\ UNCHANGED gate

NoCheck == [endpoint |-> UnsetEntry.endpoint, ok |-> TRUE, known |-> FALSE,
            full |-> FALSE, since |-> -1, changed |-> FALSE]

\* the flows of control that can call the two asynchronous calls: HomeSpan's
\* loop, and a continuation, which the task that ran the request invokes
Flows == {"loop", "task"}

\* a flow that is not inside checkThrottle and has not called it yet.  Of a
\* call: its locals endpoint and now, the uptime it was made at, the slot
\* its scan matched (hit), throttleCacheSize as read by the test for room
\* (seen), the slot it wrote a new entry to, and what it returned
Outside == [pc |-> "idle", endpoint |-> UnsetEntry.endpoint, now |-> 0, at |-> 0,
            hit |-> -1, seen |-> -1, slot |-> -1, result |-> "none", calls |-> 0]

(***************************************************************************)
(* CredentialStore: the constructor's load, isConfigured, and the two NVS  *)
(* writes the program makes.                                               *)
(***************************************************************************)
EmptyCreds == [apiKey |-> EmptyStr, deviceId |-> EmptyStr]
NoBlob == [present |-> FALSE, len |-> 0, data |-> EmptyCreds]

\* ParticleConfig::isConfigured
isConfigured(pd) == strlen(pd.apiKey) > 0 /\ strlen(pd.deviceId) > 0

\* ParticleConfig::ParticleConfig: particleData after construction
Construct(blob, openOk) ==
  IF ~openOk THEN EmptyCreds
  ELSE IF blob.present
       THEN IF blob.len = SizeofParticleData
            THEN [apiKey |-> Truncate(blob.data.apiKey, MAX_API_KEY),
                  deviceId |-> Truncate(blob.data.deviceId, MAX_DEVICE_ID)]
            ELSE EmptyCreds
       ELSE EmptyCreds

\* nvs_set_blob(particleNVS, "PDATA", &particleData, sizeof(particleData));
\* nvs_commit(particleNVS): the results are not looked at.  took: both
\* returned ESP_OK, which they cannot without a usable handle
SetBlob(blob, took, pd) ==
  IF took THEN [present |-> TRUE, len |-> SizeofParticleData, data |-> pd]
  ELSE blob

\* nvs_erase_key(particleNVS, "PDATA"); nvs_commit(particleNVS)
EraseBlob(blob, took) == IF took THEN NoBlob ELSE blob

\* credentials of the required lengths
Key(c) == Str(c, MAX_API_KEY)
Device(c) == Str(c, MAX_DEVICE_ID)
\* what namespace PARTICLE may hold when the device boots: nothing, a record
\* this program wrote, or a record of another size (another firmware's)
BlobsAtBoot ==
  { NoBlob,
    [present |-> TRUE, len |-> SizeofParticleData,
     data |-> [apiKey |-> Key("k"), deviceId |-> Device("k")]],
    [present |-> TRUE, len |-> SizeofParticleData - 1,
     data |-> [apiKey |-> Key("k"), deviceId |-> Device("k")]] }


(***************************************************************************)
(* Observations.  lastCheck and lastDone describe the step just taken: a   *)
(* step that makes no checkThrottle call, or completes no request, leaves  *)
(* them blank.                                                             *)
(***************************************************************************)
\* the payload of a failure: callback(-1, false, ...) / callback("", false, ...)
Sentinel(kind) == IF kind = "function" THEN -1 ELSE << >>

NoParams == [apiKey |-> EmptyStr, deviceId |-> EmptyStr,
             name |-> EmptyStr, arg |-> EmptyStr]

\* a call of callFunctionAsync / getVariableAsync as it is entered: its
\* arguments, the heap block for the task (params, freed), the task's locals
\* (attempt, success, value) and what is observed of the request
NewRequest(kind, name, arg, cb) ==
  [kind |-> kind, name |-> name, arg |-> arg, callback |-> cb,
   state |-> "called", path |-> "",
   params |-> NoParams, freed |-> 0,
   attempt |-> 0, success |-> FALSE, value |-> Sentinel(kind),
   outcomes |-> << >>, delays |-> 0,
   checked |-> FALSE, configEntered |-> FALSE, spawned |-> FALSE,
   cacheChanged |-> FALSE,
   cbCount |-> 0, cbSync |-> FALSE, cbSuccess |-> FALSE,
   cbValue |-> Sentinel(kind)]

NoDone == [NewRequest("function", EmptyStr, EmptyStr, FALSE) EXCEPT !.state = "none"]

\* what the control flow did in a step, with what it read (the line typed,
\* the ping's result, the connection count) and what the step started from
Event(op, line, httpCode, count) ==
  [op |-> op, line |-> line, httpCode |-> httpCode, count |-> count,
   connected |-> wifi, disabled |-> serialInputDisable,
   pd |-> particleData, blob |-> nvs,
   tempApiKey |-> flow.tempApiKey, tempDeviceId |-> flow.tempDeviceId]

NoEvent ==
  [op |-> "none", line |-> EmptyStr, httpCode |-> 0, count |-> 0,
   connected |-> FALSE, disabled |-> FALSE, pd |-> EmptyCreds, blob |-> NoBlob,
   tempApiKey |-> EmptyStr, tempDeviceId |-> EmptyStr]

\* this step is none of the control flow's prompts, commands or callbacks
NoEventMade == lastEvent' = NoEvent

\* this step makes no checkThrottle call
NoCheckMade == lastCheck' = NoCheck /\ UNCHANGED cacheVars
\* this step completes no request
NoneDone == lastDone' = NoDone

\* the store as observed around the latest construction: what the previous
\* instance held when it stopped (before), the last thing it did to the
\* store (lastOp) and whether NVS took that write (lastTook), whether this
\* construction opened the namespace, and the last thing this instance has
\* done to the store so far (op, took)
Booted(n, before, lastOp, lastTook, openOk) ==
  [restarts |-> n, before |-> before, lastOp |-> lastOp,
   lastTook |-> lastTook, openOk |-> openOk, op |-> "none", took |-> FALSE]

(***************************************************************************)
(* The clock.                                                              *)
(***************************************************************************)
Tick(deltas) ==
  /\ advances < MaxAdvances
  /\ \E d \in deltas : uptime' = uptime + d
  /\ advances' = advances + 1
  /\ NoCheckMade /\ NoneDone /\ NoEventMade
  /\ UNCHANGED <<storeVars, envVars, flow, reqs, boot>>

(***************************************************************************)
(* Construction: the state a new ParticleConfig starts in, given what NVS  *)
(* holds and whether nvs_open succeeds.  (operator new does not return a   *)
(* null pointer in ISO C++, so the tasks' tests for one never fire.)       *)
(***************************************************************************)
NoFlow == [pc |-> "idle", caller |-> "none", req |-> 0,
           tempApiKey |-> EmptyStr, tempDeviceId |-> EmptyStr]

Boot(blobs, opens, disables) ==
  /\ nvs \in blobs
  /\ nvsHandleOk \in opens
  /\ particleData = Construct(nvs, nvsHandleOk)
  /\ wifi = FALSE
  /\ connection = [count |-> 0, notified |-> FALSE]
  /\ serialInputDisable \in disables
  /\ throttleCache = [i \in 0 .. PARTICLE_THROTTLE_CACHE_SIZE - 1 |-> UnsetEntry]
  /\ throttleCacheSize = 0
  /\ uptime = 0
  /\ flow = NoFlow
  /\ reqs = << >>
  /\ advances = 0
  /\ lastCheck = NoCheck
  /\ lastDone = NoDone
  /\ admittedAt = [e \in TestEndpoints |-> -1]
  /\ gate = [f \in Flows |-> Outside]
  /\ boot = Booted(0, EmptyCreds, "none", FALSE, nvsHandleOk)
  /\ lastEvent = NoEvent

\* a record this program wrote
StoredBlob == SetBlob(NoBlob, TRUE, [apiKey |-> Key("k"), deviceId |-> Device("k")])

(***************************************************************************)
(* ThrottleGate on its own: any sequence of checkThrottle calls and clock  *)
(* advances on a configured, connected system.  The cache is filled with   *)
(* further distinct endpoints only before anything else is called.         *)
(***************************************************************************)
ThrottleInit == Boot({StoredBlob}, {TRUE}, {FALSE})

ThrottleCall ==
  /\ \E kind \in Kinds, name \in ThrottleNames :
       ThrottleUpdate(kind, name,
         checkThrottle(throttleCache, throttleCacheSize, millis, kind, name))
  /\ NoneDone /\ NoEventMade
  /\ UNCHANGED <<storeVars, envVars, clockVars, flow, reqs, boot>>

ThrottleFill ==
  /\ uptime = 0
  /\ throttleCacheSize < PARTICLE_THROTTLE_CACHE_SIZE
  /\ \A e \in TestEndpoints : ~InCache(e)
  /\ ThrottleUpdate("function", Filler(throttleCacheSize + 1),
       checkThrottle(throttleCache, throttleCacheSize, millis, "function",
                     Filler(throttleCacheSize + 1)))
  /\ NoneDone /\ NoEventMade
  /\ UNCHANGED <<storeVars, envVars, clockVars, flow, reqs, boot>>

ThrottleTick == Tick(Deltas)

ThrottleNext == ThrottleCall \/ ThrottleFill \/ ThrottleTick

SpecThrottle == ThrottleInit /\ [][ThrottleNext]_vars

(***************************************************************************)
(* checkThrottle statement by statement, entered by two flows of control.  *)
(* The function takes no lock and the members it reads and writes are      *)
(* plain, so the steps of the two flows interleave freely; where one build *)
(* may keep throttleCacheSize in a register and another read it again, the *)
(* step takes either value.  The flows make at most MaxRequests calls      *)
(* between them, so the cache does not fill up here.                       *)
(***************************************************************************)
\* this step of flow f is no call of the control flow's own, no request
\* ends in it and the flow is left as rec
GateStep(f, rec) ==
  /\ gate' = [gate EXCEPT ![f] = rec]
  /\ lastCheck' = NoCheck
  /\ NoneDone /\ NoEventMade
  /\ UNCHANGED <<storeVars, envVars, clockVars, flow, reqs, boot>>

\* return true: the call of flow f is admitted
GateAdmit(f, rec) ==
  /\ GateStep(f, [rec EXCEPT !.pc = "idle", !.result = "admitted"])
  /\ admittedAt' = IF rec.endpoint \in DOMAIN admittedAt
                      /\ admittedAt[rec.endpoint] < rec.at
                   THEN [admittedAt EXCEPT ![rec.endpoint] = rec.at]
                   ELSE admittedAt

\* the calls of checkThrottle the flows have made between them
GateCalls == gate["loop"].calls + gate["task"].calls

\* snprintf(endpoint, ...); unsigned long now = millis();
GateEnter ==
  \E f \in Flows, kind \in Kinds, name \in ThrottleNames :
    /\ gate[f].pc = "idle"
    /\ GateCalls < MaxRequests
    /\ GateStep(f, [Outside EXCEPT !.pc = "scan",
                                   !.endpoint = Endpoint(kind, name),
                                   !.now = millis, !.at = uptime,
                                   !.calls = gate[f].calls + 1])
    /\ UNCHANGED <<throttleCache, throttleCacheSize, admittedAt>>

\* the for loop: the first entry that matches, if any, and the test of
\* elapsed against the window; return false when inside it
GateScan ==
  \E f \in Flows :
    /\ gate[f].pc = "scan"
    /\ LET hits == {i \in 0 .. throttleCacheSize - 1 :
                      throttleCache[i].endpoint = gate[f].endpoint}
       IN  GateStep(f,
             IF hits = {} THEN [gate[f] EXCEPT !.pc = "room"]
             ELSE IF Elapsed(gate[f].now, throttleCache[Min(hits)].lastCall)
                       < ThrottleWindow
             THEN [gate[f] EXCEPT !.pc = "idle", !.result = "denied"]
             ELSE [gate[f] EXCEPT !.pc = "update", !.hit = Min(hits)])
    /\ UNCHANGED <<throttleCache, throttleCacheSize, admittedAt>>

\* throttleCache[i].lastCall = now; return true;
GateUpdate ==
  \E f \in Flows :
    /\ gate[f].pc = "update"
    /\ throttleCache' = [throttleCache EXCEPT ![gate[f].hit].lastCall = gate[f].now]
    /\ GateAdmit(f, gate[f])
    /\ UNCHANGED throttleCacheSize

\* if(throttleCacheSize < PARTICLE_THROTTLE_CACHE_SIZE) ... else return true
GateRoom ==
  \E f \in Flows :
    /\ gate[f].pc = "room"
    /\ IF throttleCacheSize < PARTICLE_THROTTLE_CACHE_SIZE
       THEN /\ GateStep(f, [gate[f] EXCEPT !.pc = "write",
                                           !.seen = throttleCacheSize])
            /\ UNCHANGED admittedAt
       ELSE GateAdmit(f, gate[f])
    /\ UNCHANGED <<throttleCache, throttleCacheSize>>

\* strncpy(throttleCache[throttleCacheSize].endpoint, ...);
\* throttleCache[throttleCacheSize].lastCall = now;  the index is the
\* value the test read or the value the member holds now
GateWrite ==
  \E f \in Flows :
    /\ gate[f].pc = "write"
    /\ \E slot \in {gate[f].seen, throttleCacheSize}
                    \cap (0 .. PARTICLE_THROTTLE_CACHE_SIZE - 1) :
         /\ throttleCache' =
              [throttleCache EXCEPT ![slot] = [endpoint |-> gate[f].endpoint,
                                              lastCall |-> gate[f].now]]
         /\ GateStep(f, [gate[f] EXCEPT !.pc = "count", !.slot = slot])
    /\ UNCHANGED <<throttleCacheSize, admittedAt>>

\* throttleCacheSize++; return true;  one more than the value the test
\* read or than the value the member holds now
GateCount ==
  \E f \in Flows :
    /\ gate[f].pc = "count"
    /\ \E size \in {gate[f].seen, throttleCacheSize} :
         throttleCacheSize' = size + 1
    /\ GateAdmit(f, gate[f])
    /\ UNCHANGED throttleCache

\* the clock moves on by a millisecond or by the window, at any point
RaceTick == Tick({1, ThrottleWindow})

RaceNext ==
  GateEnter \/ GateScan \/ GateUpdate \/ GateRoom \/ GateWrite \/ GateCount
    \/ RaceTick

SpecRace == ThrottleInit /\ [][RaceNext]_vars

(***************************************************************************)
(* Requests.                                                               *)
(***************************************************************************)
\* if(callback) callback(value, success, userData); sync: invoked by the
\* calling flow before the call returns
Invoke(req, value, success, sync) ==
  IF req.callback
  THEN [req EXCEPT !.cbCount = @ + 1, !.cbValue = value,
                   !.cbSuccess = success, !.cbSync = sync]
  ELSE req

\* an early exit that returns without telling the caller
RejectSilently(req, path) == [req EXCEPT !.state = "done", !.path = path]

\* the early exits of the two calls: the failure callback, then return
Reject(req, path) ==
  Invoke([req EXCEPT !.state = "done", !.path = path],
         Sentinel(req.kind), FALSE, TRUE)

\* a spawn failure that releases the block and returns without a word
SpawnFailedSilently(req) ==
  [req EXCEPT !.state = "done", !.path = "spawnFailed", !.freed = @ + 1]

\* a spawn failure that calls back and keeps the block
SpawnFailedLeaking(req) == Reject(req, "spawnFailed")

\* if(result != pdPASS) { callback(failure); delete taskParams; }
SpawnFailed(req) == [Reject(req, "spawnFailed") EXCEPT !.freed = @ + 1]

\* new ...TaskParams(), the strcpy's into it, and xTaskCreate
Spawn(req, pd, spawnOk) ==
  LET filled == [req EXCEPT !.params = [apiKey |-> pd.apiKey,
                                        deviceId |-> pd.deviceId,
                                        name |-> req.name, arg |-> req.arg]]
  IN  IF spawnOk
      THEN [filled EXCEPT !.state = "running", !.spawned = TRUE, !.path = "task"]
      ELSE SpawnFailed(filled)

\* a call that goes on to spawn whatever the throttle said
AfterThrottleSpawning(req, pd, res, spawnOk) ==
  Spawn([req EXCEPT !.checked = TRUE], pd, spawnOk)

\* the two calls from "Check throttle" on, given checkThrottle's verdict
AfterThrottle(req, pd, res, spawnOk) ==
  IF ~res.ok
  THEN Reject([req EXCEPT !.checked = TRUE], "throttled")
  ELSE Spawn([req EXCEPT !.checked = TRUE], pd, spawnOk)

\* what is left of a request that is over: its block is deleted and the
\* locals of the call and of the task are gone; that its task could not be
\* created stays on record
Retire(req) ==
  [NewRequest(req.kind, EmptyStr, EmptyStr, req.callback)
     EXCEPT !.state = "done", !.cbCount = req.cbCount,
            !.path = IF req.path = "spawnFailed" THEN req.path ELSE ""]

\* request number r becomes rec; a request that is over is observed
Record(r, rec) ==
  LET kept == IF rec.state = "done" THEN Retire(rec) ELSE rec
  IN  /\ reqs' = IF r > Len(reqs) THEN Append(reqs, kept)
                 ELSE [reqs EXCEPT ![r] = kept]
      /\ lastDone' = IF rec.state = "done"
                     THEN [rec EXCEPT !.cacheChanged =
                             throttleCache' # throttleCache
                               \/ throttleCacheSize' # throttleCacheSize]
                     ELSE NoDone

(***************************************************************************)
(* The background tasks.                                                   *)
(***************************************************************************)
\* what a transport attempt may return: 200 with a body, another status,
\* a read timeout, a refused connection
StatusCodes == {404, HTTPC_ERROR_READ_TIMEOUT, -1}
FunctionOutcomes ==
  {[code |-> 200, body |-> b] : b \in FunctionBodies}
    \cup {[code |-> c, body |-> << >>] : c \in StatusCodes}
VariableOutcomes ==
  {[code |-> 200, body |-> b] : b \in VariableBodies}
    \cup {[code |-> c, body |-> << >>] : c \in StatusCodes}

\* the parsers of the two tasks applied to each body the transport may return
ReturnValueOf == [b \in FunctionBodies |-> ParseReturnValue(b)]
ResultOf == [b \in VariableBodies |-> ParseResult(b)]

\* a transport attempt as made: the credentials sent (the bearer token and
\* the device id in the URL), what came back and what the task made of it
Attempt(sent, out, success) ==
  [apiKey |-> sent.apiKey, deviceId |-> sent.deviceId,
   code |-> out.code, body |-> out.body, success |-> success]

\* a loop that stops one attempt early
LoopConditionShort(attempt, success) ==
  attempt < PARTICLE_FUNCTION_RETRY_COUNT /\ ~success

\* for(...; attempt <= PARTICLE_FUNCTION_RETRY_COUNT && !success; attempt++):
\* the condition does not look at the httpCode of the attempt just made
LoopCondition(attempt, success) ==
  attempt <= PARTICLE_FUNCTION_RETRY_COUNT /\ ~success

\* the test guarding vTaskDelay: it only delays, the loop goes on regardless
RetryDelay(attempt, success, httpCode) ==
  /\ ~success
  /\ httpCode = HTTPC_ERROR_READ_TIMEOUT
  /\ attempt < PARTICLE_FUNCTION_RETRY_COUNT

\* an iteration that takes its value from whatever the attempt returned
FunctionAttemptLeaky(req, out) ==
  LET parsed == IF out.code = 200 THEN ReturnValueOf[out.body]
                ELSE [success |-> FALSE, returnValue |-> out.code]
  IN  [req EXCEPT !.success = parsed.success,
                  !.value = parsed.returnValue,
                  !.outcomes = Append(@, Attempt(req.params, out, parsed.success)),
                  !.attempt = @ + 1,
                  !.state = IF LoopCondition(req.attempt + 1, parsed.success)
                            THEN "running" ELSE "finishing"]

\* an iteration that sends whatever the store holds when the attempt is made
FunctionAttemptLive(req, out) ==
  LET parsed == IF out.code = 200 THEN ReturnValueOf[out.body]
                ELSE [success |-> FALSE, returnValue |-> req.value]
      success == parsed.success
  IN  [req EXCEPT !.success = success,
                  !.value = IF success THEN parsed.returnValue ELSE @,
                  !.outcomes = Append(@, Attempt(particleData, out, success)),
                  !.delays = @ + IF RetryDelay(req.attempt, success, out.code)
                                 THEN 1 ELSE 0,
                  !.attempt = @ + 1,
                  !.state = IF LoopCondition(req.attempt + 1, success)
                            THEN "running" ELSE "finishing"]

\* one iteration of callFunctionTaskImpl's loop, the transport returning out
FunctionAttempt(req, out) ==
  LET parsed == IF out.code = 200 THEN ReturnValueOf[out.body]
                ELSE [success |-> FALSE, returnValue |-> req.value]
      success == parsed.success
  IN  [req EXCEPT !.success = success,
                  !.value = IF success THEN parsed.returnValue ELSE @,
                  !.outcomes = Append(@, Attempt(req.params, out, success)),
                  !.delays = @ + IF RetryDelay(req.attempt, success, out.code)
                                 THEN 1 ELSE 0,
                  !.attempt = @ + 1,
                  !.state = IF LoopCondition(req.attempt + 1, success)
                            THEN "running" ELSE "finishing"]

\* a variable task that asks again after a failure
VariableAttemptRetrying(req, out) ==
  LET parsed == IF out.code = 200 THEN ResultOf[out.body]
                ELSE [success |-> FALSE, result |-> req.value]
  IN  [req EXCEPT !.success = parsed.success,
                  !.value = IF parsed.success THEN parsed.result ELSE @,
                  !.outcomes = Append(@, Attempt(req.params, out, parsed.success)),
                  !.attempt = @ + 1,
                  !.state = IF LoopCondition(req.attempt + 1, parsed.success)
                            THEN "running" ELSE "finishing"]

\* getVariableTaskImpl's single round trip, the transport returning out
VariableAttempt(req, out) ==
  LET parsed == IF out.code = 200 THEN ResultOf[out.body]
                ELSE [success |-> FALSE, result |-> req.value]
  IN  [req EXCEPT !.success = parsed.success,
                  !.value = IF parsed.success THEN parsed.result ELSE @,
                  !.outcomes = Append(@, Attempt(req.params, out, parsed.success)),
                  !.attempt = @ + 1,
                  !.state = "finishing"]

\* a task end that calls back before and after releasing the block
TaskEndTwice(req) ==
  Invoke(Invoke([req EXCEPT !.freed = @ + 1, !.state = "done"],
                req.value, req.success, FALSE), req.value, req.success, FALSE)

\* the end of either task: delete task; if(localCallback) localCallback(...)
TaskEnd(req) ==
  Invoke([req EXCEPT !.freed = @ + 1, !.state = "done"],
         req.value, req.success, FALSE)

\* the task of req from the return of a transport attempt to its next
\* attempt or, after the last one, to its end
TaskStep(req, out) ==
  LET after == IF req.kind = "function" THEN FunctionAttempt(req, out)
               ELSE VariableAttempt(req, out)
  IN  IF after.state = "finishing" THEN TaskEnd(after) ELSE after

\* a transport attempt of task r returns
TaskAttempt(r) ==
  /\ reqs[r].state = "running"
  /\ UNCHANGED <<storeVars, envVars, clockVars, flow, boot>>
  /\ NoCheckMade /\ NoEventMade
  /\ \E out \in IF reqs[r].kind = "function" THEN FunctionOutcomes
                ELSE VariableOutcomes :
       \E rec \in {TaskStep(reqs[r], out)} : Record(r, rec)

(***************************************************************************)
(* The control flow: the serial configurator.                              *)
(***************************************************************************)
\* lines the operator may type: nothing, one letter, two letters, and runs
\* of the two credential lengths, of one less and of one more
SerialLines ==
  { EmptyStr, Str("y", 1), Str("Y", 1), Str("n", 1), Str("y", 2),
    Str("k", MAX_DEVICE_ID), Str("k", MAX_API_KEY),
    Str("m", MAX_DEVICE_ID), Str("m", MAX_API_KEY),
    Str("k", MAX_DEVICE_ID - 1), Str("k", MAX_API_KEY - 1),
    Str("k", MAX_API_KEY + 1) }
\* the lines typed while requests are made: nothing, or a token
CallLines == {EmptyStr, Str("k", MAX_API_KEY)}

\* ParticleConfig::readSerial(c, max) given the line typed: empty when serial
\* input is disabled, else the line's first max bytes
readSerial(disabled, line, max) ==
  IF disabled THEN EmptyStr ELSE Truncate(line, max)

\* HTTP results of the ping: 200, a rejected token, a failed connection
PingCodes == {200, 401, -1}

\* a validation that takes any answer of the server for a yes
validateCredentialsLenient(connected, httpCode) ==
  IF ~connected THEN FALSE ELSE httpCode > 0

\* ParticleConfig::validateCredentials: the ping returned httpCode
validateCredentials(connected, httpCode) ==
  IF ~connected THEN FALSE ELSE httpCode = 200

\* entry of serialConfigure on behalf of caller (and of request r, if any)
EnterConfigure(caller, r) ==
  [pc |-> "apiKey", caller |-> caller, req |-> r,
   tempApiKey |-> EmptyStr, tempDeviceId |-> EmptyStr]

\* one turn of the "Get access token" loop: a line is read
ReadApiKey(lines) ==
  /\ flow.pc = "apiKey"
  /\ \E line \in lines :
       LET entered == readSerial(serialInputDisable, line, MAX_API_KEY)
       IN  /\ flow' = IF strlen(entered) = 0 \/ strlen(entered) # MAX_API_KEY
                      THEN [flow EXCEPT !.tempApiKey = EmptyStr]
                      ELSE [flow EXCEPT !.tempApiKey = entered, !.pc = "deviceId"]
           /\ lastEvent' = Event("apiKey", line, 0, 0)
  /\ NoCheckMade /\ NoneDone
  /\ UNCHANGED <<storeVars, envVars, clockVars, reqs, boot>>

\* one turn of the "Get Device ID" loop: a line is read
ReadDeviceId(lines) ==
  /\ flow.pc = "deviceId"
  /\ \E line \in lines :
       LET entered == readSerial(serialInputDisable, line, MAX_DEVICE_ID)
       IN  /\ flow' = IF strlen(entered) = 0 \/ strlen(entered) # MAX_DEVICE_ID
                      THEN [flow EXCEPT !.tempDeviceId = EmptyStr]
                      ELSE [flow EXCEPT !.tempDeviceId = entered, !.pc = "validate"]
           /\ lastEvent' = Event("deviceId", line, 0, 0)
  /\ NoCheckMade /\ NoneDone
  /\ UNCHANGED <<storeVars, envVars, clockVars, reqs, boot>>

\* a configurator that stores the pair without persisting it
CommitInMemoryOnly(blob, took, pd) == blob

\* the end of serialConfigure: what "PDATA" holds after the pair pd is saved
Commit(blob, took, pd) == SetBlob(blob, took, pd)

\* the rest of a call that entered serialConfigure, which has just returned
\* leaving credentials pd: the second isConfigured test, then the throttle
ResumeCall(r, pd, spawnOk) ==
  IF ~isConfigured(pd)
  THEN /\ NoCheckMade
       /\ Record(r, Reject(reqs[r], "stillUnconfigured"))
  ELSE LET res == checkThrottle(throttleCache, throttleCacheSize, millis,
                                reqs[r].kind, reqs[r].name)
       IN  /\ ThrottleUpdate(reqs[r].kind, reqs[r].name, res)
           /\ \E rec \in {AfterThrottle(reqs[r], pd, res, spawnOk)} :
                Record(r, rec)

\* a serialConfigure that gives up after one failed validation and returns
\* to its caller with the credentials as they were
ValidateGivingUp(writes) ==
  /\ flow.pc = "validate"
  /\ \E httpCode \in PingCodes, spawnOk \in BOOLEAN, wrote \in writes :
       /\ lastEvent' = Event("validate", EmptyStr, IF wifi THEN httpCode ELSE 0, 0)
       /\ flow' = NoFlow
       /\ IF ~validateCredentials(wifi, httpCode)
          THEN /\ IF flow.caller = "call"
                  THEN ResumeCall(flow.req, particleData, spawnOk)
                  ELSE NoCheckMade /\ NoneDone /\ UNCHANGED reqs
               /\ UNCHANGED <<storeVars, boot>>
          ELSE LET pd == [apiKey |-> flow.tempApiKey,
                          deviceId |-> flow.tempDeviceId]
               IN  /\ particleData' = pd
                   /\ nvs' = Commit(nvs, nvsHandleOk /\ wrote, pd)
                   /\ boot' = [boot EXCEPT !.op = "save",
                                           !.took = nvsHandleOk /\ wrote]
                   /\ IF flow.caller = "call"
                      THEN ResumeCall(flow.req, pd, spawnOk)
                      ELSE NoCheckMade /\ NoneDone /\ UNCHANGED reqs
                   /\ UNCHANGED nvsHandleOk
  /\ UNCHANGED <<envVars, clockVars>>

\* validateCredentials returns; on success serialConfigure stores the pair,
\* saves it and returns to its caller, which runs on to its own return.
\* writes: whether NVS, given a usable handle, may take the write or refuse it
Validate(writes) ==
  /\ flow.pc = "validate"
  /\ \E httpCode \in PingCodes, spawnOk \in BOOLEAN, wrote \in writes :
       /\ lastEvent' = Event("validate", EmptyStr, IF wifi THEN httpCode ELSE 0, 0)
       /\ IF ~validateCredentials(wifi, httpCode)
          THEN /\ flow' = [flow EXCEPT !.pc = "apiKey", !.tempApiKey = EmptyStr,
                                       !.tempDeviceId = EmptyStr]
               /\ NoCheckMade /\ NoneDone
               /\ UNCHANGED <<storeVars, reqs, boot>>
          ELSE LET pd == [apiKey |-> flow.tempApiKey,
                          deviceId |-> flow.tempDeviceId]
               IN  /\ particleData' = pd
                   /\ nvs' = Commit(nvs, nvsHandleOk /\ wrote, pd)
                   /\ boot' = [boot EXCEPT !.op = "save",
                                           !.took = nvsHandleOk /\ wrote]
                   /\ flow' = NoFlow
                   /\ IF flow.caller = "call"
                      THEN ResumeCall(flow.req, pd, spawnOk)
                      ELSE NoCheckMade /\ NoneDone /\ UNCHANGED reqs
                   /\ UNCHANGED nvsHandleOk
  /\ UNCHANGED <<envVars, clockVars>>

(***************************************************************************)
(* The control flow: the two asynchronous calls.                           *)
(***************************************************************************)
\* a call that starts work without looking at the lengths
CallUnvalidated(req, spawnOk) ==
  LET r == Len(reqs) + 1
  IN  IF ~isConfigured(particleData)
      THEN IF ~wifi
           THEN /\ NoCheckMade /\ UNCHANGED flow
                /\ Record(r, Reject(req, "noWifi"))
           ELSE /\ NoCheckMade
                /\ flow' = EnterConfigure("call", r)
                /\ Record(r, [req EXCEPT !.state = "configuring",
                                         !.configEntered = TRUE])
      ELSE LET res == checkThrottle(throttleCache, throttleCacheSize, millis,
                                    req.kind, req.name)
           IN  /\ ThrottleUpdate(req.kind, req.name, res)
               /\ UNCHANGED flow
               /\ \E rec \in {AfterThrottle(req, particleData, res, spawnOk)} :
                    Record(r, rec)

\* callFunctionAsync / getVariableAsync up to the point where the call
\* returns or blocks in serialConfigure
Call(req, spawnOk) ==
  LET r == Len(reqs) + 1
  IN  IF strlen(req.name) > MAX_NAME
      THEN /\ NoCheckMade /\ UNCHANGED flow
           /\ Record(r, Reject(req, "nameTooLong"))
      ELSE IF req.kind = "function" /\ strlen(req.arg) > MAX_ARGUMENT
      THEN /\ NoCheckMade /\ UNCHANGED flow
           /\ Record(r, Reject(req, "argTooLong"))
      ELSE IF ~isConfigured(particleData)
      THEN IF ~wifi
           THEN /\ NoCheckMade /\ UNCHANGED flow
                /\ Record(r, Reject(req, "noWifi"))
           ELSE /\ NoCheckMade
                /\ flow' = EnterConfigure("call", r)
                /\ Record(r, [req EXCEPT !.state = "configuring",
                                         !.configEntered = TRUE])
      ELSE LET res == checkThrottle(throttleCache, throttleCacheSize, millis,
                                    req.kind, req.name)
           IN  /\ ThrottleUpdate(req.kind, req.name, res)
               /\ UNCHANGED flow
               /\ \E rec \in {AfterThrottle(req, particleData, res, spawnOk)} :
                    Record(r, rec)

\* the application calls callFunctionAsync, with a continuation or without
CallFunctionAsync(callbacks) ==
  /\ flow.pc = "idle"
  /\ Len(reqs) < MaxRequests
  /\ \E name \in Names, arg \in Arguments, cb \in callbacks, spawnOk \in BOOLEAN :
       Call(NewRequest("function", name, arg, cb), spawnOk)
  /\ NoEventMade
  /\ UNCHANGED <<storeVars, envVars, clockVars, boot>>

\* the application calls getVariableAsync, with a continuation or without
GetVariableAsync(callbacks) ==
  /\ flow.pc = "idle"
  /\ Len(reqs) < MaxRequests
  /\ \E name \in Names, cb \in callbacks, spawnOk \in BOOLEAN :
       Call(NewRequest("variable", name, EmptyStr, cb), spawnOk)
  /\ NoEventMade
  /\ UNCHANGED <<storeVars, envVars, clockVars, boot>>

(***************************************************************************)
(* The control flow: connection callback and operator commands.            *)
(***************************************************************************)
\* a clear that empties the token and forgets the device id
ClearConfigKeyOnly ==
  /\ particleData' = [particleData EXCEPT !.apiKey = EmptyStr]
  /\ \E wrote \in BOOLEAN :
       /\ nvs' = EraseBlob(nvs, nvsHandleOk /\ wrote)
       /\ boot' = [boot EXCEPT !.op = "clear", !.took = nvsHandleOk /\ wrote]
  /\ UNCHANGED nvsHandleOk

\* ParticleConfig::clearConfig
ClearConfig ==
  /\ particleData' = EmptyCreds
  /\ \E wrote \in BOOLEAN :
       /\ nvs' = EraseBlob(nvs, nvsHandleOk /\ wrote)
       /\ boot' = [boot EXCEPT !.op = "clear", !.took = nvsHandleOk /\ wrote]
  /\ UNCHANGED nvsHandleOk

\* a callback that looks at the store on every connection
OnConnectionEvery ==
  /\ flow.pc = "idle"
  /\ wifi /\ ~connection.notified
  /\ connection.count < MaxConnections
  /\ connection' = [count |-> connection.count + 1, notified |-> TRUE]
  /\ flow' = IF ~isConfigured(particleData)
             THEN EnterConfigure("onConnection", 0)
             ELSE flow
  /\ lastEvent' = Event("connection", EmptyStr, 0, connection.count + 1)
  /\ NoCheckMade /\ NoneDone
  /\ UNCHANGED <<storeVars, wifi, serialInputDisable, clockVars, reqs, boot>>

\* HomeSpan finds the network connected and reports it, once per connection:
\* ParticleConfig::onConnection(connectionCount)
OnConnection ==
  /\ flow.pc = "idle"
  /\ wifi /\ ~connection.notified
  /\ connection.count < MaxConnections
  /\ connection' = [count |-> connection.count + 1, notified |-> TRUE]
  /\ flow' = IF connection.count + 1 = 1 /\ ~isConfigured(particleData)
             THEN EnterConfigure("onConnection", 0)
             ELSE flow
  /\ lastEvent' = Event("connection", EmptyStr, 0, connection.count + 1)
  /\ NoCheckMade /\ NoneDone
  /\ UNCHANGED <<storeVars, wifi, serialInputDisable, clockVars, reqs, boot>>

\* ParticleConfig::cliSetup (command 'I')
CliSetup ==
  /\ flow.pc = "idle"
  /\ IF ~wifi
     THEN UNCHANGED <<storeVars, flow, boot>>
     ELSE ClearConfig /\ flow' = EnterConfigure("cliSetup", 0)
  /\ lastEvent' = Event("cliSetup", EmptyStr, 0, 0)
  /\ NoCheckMade /\ NoneDone
  /\ UNCHANGED <<envVars, clockVars, reqs>>

\* ParticleConfig::cliClear (command 'N') up to the confirmation prompt
CliClear ==
  /\ flow.pc = "idle"
  /\ flow' = IF ~isConfigured(particleData) THEN flow
             ELSE [flow EXCEPT !.pc = "confirm", !.caller = "cliClear"]
  /\ lastEvent' = Event("cliClear", EmptyStr, 0, 0)
  /\ NoCheckMade /\ NoneDone
  /\ UNCHANGED <<storeVars, envVars, clockVars, reqs, boot>>

\* a confirmation that clears whatever is typed
CliConfirmAnyInput ==
  /\ flow.pc = "confirm"
  /\ \E line \in SerialLines :
       /\ lastEvent' = Event("confirm", line, 0, 0)
       /\ ClearConfig
  /\ flow' = NoFlow
  /\ NoCheckMade /\ NoneDone
  /\ UNCHANGED <<envVars, clockVars, reqs>>

\* cliClear from the line read at the prompt on
CliConfirm ==
  /\ flow.pc = "confirm"
  /\ \E line \in SerialLines :
       LET confirm == readSerial(serialInputDisable, line, 1)
       IN  /\ lastEvent' = Event("confirm", line, 0, 0)
           /\ IF strlen(confirm) > 0 /\ confirm.ch \in {"y", "Y"}
              THEN ClearConfig
              ELSE UNCHANGED <<storeVars, boot>>
  /\ flow' = NoFlow
  /\ NoCheckMade /\ NoneDone
  /\ UNCHANGED <<envVars, clockVars, reqs>>

(***************************************************************************)
(* The environment: the network and the power.                             *)
(***************************************************************************)
WifiUp ==
  /\ ~wifi
  /\ wifi' = TRUE
  /\ NoCheckMade /\ NoneDone /\ NoEventMade
  /\ UNCHANGED <<storeVars, connection, serialInputDisable, clockVars, flow,
                 reqs, boot>>

WifiDown ==
  /\ wifi
  /\ wifi' = FALSE
  /\ connection' = [connection EXCEPT !.notified = FALSE]
  /\ NoCheckMade /\ NoneDone /\ NoEventMade
  /\ UNCHANGED <<storeVars, serialInputDisable, clockVars, flow, reqs, boot>>

\* the device restarts: a new ParticleConfig is constructed over what NVS holds
Restart ==
  /\ boot.restarts < MaxRestarts
  /\ \E openOk \in BOOLEAN :
       /\ nvsHandleOk' = openOk
       /\ particleData' = Construct(nvs, openOk)
       /\ boot' = Booted(boot.restarts + 1, particleData, boot.op,
                         boot.took, openOk)
  /\ wifi' = FALSE
  /\ connection' = [count |-> 0, notified |-> FALSE]
  /\ throttleCache' = [i \in 0 .. PARTICLE_THROTTLE_CACHE_SIZE - 1 |-> UnsetEntry]
  /\ throttleCacheSize' = 0
  /\ admittedAt' = [e \in TestEndpoints |-> -1]
  /\ gate' = [f \in Flows |-> Outside]
  /\ lastCheck' = NoCheck
  /\ uptime' = 0
  /\ flow' = NoFlow
  /\ reqs' = << >>
  /\ NoneDone /\ NoEventMade
  /\ UNCHANGED <<nvs, serialInputDisable, advances>>

(***************************************************************************)
(* The program while requests are made: the two calls, the configurator    *)
(* they may enter, the network and the tasks.  The namespace opened, NVS   *)
(* takes what is written, and holds nothing or a record this program wrote.*)
(***************************************************************************)
Init == Boot({NoBlob, StoredBlob}, {TRUE}, BOOLEAN)

Next ==
  \/ CallFunctionAsync(BOOLEAN)
  \/ GetVariableAsync(BOOLEAN)
  \/ ReadApiKey(CallLines)
  \/ ReadDeviceId(CallLines)
  \/ Validate({TRUE})
  \/ WifiUp
  \/ WifiDown
  \/ \E r \in 1 .. MaxRequests : r <= Len(reqs) /\ TaskAttempt(r)

Spec == Init /\ [][Next]_vars

(***************************************************************************)
(* The same with every request given a continuation and serial input       *)
(* enabled, the tasks scheduled fairly and every transport attempt         *)
(* returning.  Nothing is assumed of what the operator types, or when.     *)
(***************************************************************************)
FairInit == Boot({NoBlob, StoredBlob}, {TRUE}, {FALSE})

FairNext ==
  \/ CallFunctionAsync({TRUE})
  \/ GetVariableAsync({TRUE})
  \/ ReadApiKey(CallLines)
  \/ ReadDeviceId(CallLines)
  \/ Validate({TRUE})
  \/ WifiUp
  \/ WifiDown
  \/ \E r \in 1 .. MaxRequests : r <= Len(reqs) /\ TaskAttempt(r)

FairSpec ==
  /\ FairInit /\ [][FairNext]_vars
  /\ \A r \in 1 .. MaxRequests : WF_vars(r <= Len(reqs) /\ TaskAttempt(r))

(***************************************************************************)
(* Requests in flight while the operator reconfigures: a configured        *)
(* system, the two calls and their tasks, and the operator's command 'I',  *)
(* which clears the store and then runs the configurator.                  *)
(***************************************************************************)
\* the line the operator types when reconfiguring: a new token (the device
\* id prompt keeps its first MAX_DEVICE_ID bytes)
ReconfigureLines == {Str("m", MAX_API_KEY)}

SnapshotInit == Boot({StoredBlob}, {TRUE}, {FALSE})

SnapshotNext ==
  \/ CallFunctionAsync({TRUE})
  \/ GetVariableAsync({TRUE})
  \/ \E r \in 1 .. MaxRequests : r <= Len(reqs) /\ TaskAttempt(r)
  \/ CliSetup
  \/ ReadApiKey(ReconfigureLines)
  \/ ReadDeviceId(ReconfigureLines)
  \/ Validate({TRUE})
  \/ WifiUp

SpecSnapshot == SnapshotInit /\ [][SnapshotNext]_vars

(***************************************************************************)
(* The credential store over restarts: the configurator, the operator's    *)
(* commands, the connection callback and the power.                        *)
(***************************************************************************)
StoreInit == Boot(BlobsAtBoot, BOOLEAN, BOOLEAN)

StoreNext ==
  \/ ReadApiKey(SerialLines)
  \/ ReadDeviceId(SerialLines)
  \/ Validate(BOOLEAN)
  \/ OnConnection
  \/ CliSetup
  \/ CliClear
  \/ CliConfirm
  \/ WifiUp
  \/ WifiDown
  \/ Restart

SpecStore == StoreInit /\ [][StoreNext]_vars

(***************************************************************************)
(* Claims about the asynchronous calls (specifications Spec and FairSpec). *)
(***************************************************************************)
\* C1: the continuation of a request made with one is never invoked twice,
\* and has been invoked exactly once when the request is over, whichever
\* path the request took; a request made without one invokes nothing.
C1_ExactlyOnce ==
  /\ \A r \in 1 .. Len(reqs) :
       /\ reqs[r].cbCount <= (IF reqs[r].callback THEN 1 ELSE 0)
       /\ (reqs[r].state = "done" /\ reqs[r].callback) => reqs[r].cbCount = 1
  /\ lastDone.state = "done" =>
       lastDone.cbCount = (IF lastDone.callback THEN 1 ELSE 0)

\* C1 witness: a request was denied by the throttle and called back once,
\* after an earlier request had been called back once by its task
C1_Witness ==
  /\ lastDone.state = "done" /\ lastDone.path = "throttled"
  /\ lastDone.callback /\ lastDone.cbCount = 1
  /\ \E r \in 1 .. Len(reqs) :
       reqs[r].state = "done" /\ reqs[r].callback /\ reqs[r].cbCount = 1

C3_OversizeRejected ==
  /\ \A r \in 1 .. Len(reqs) :
       strlen(reqs[r].name) <= MAX_NAME /\ strlen(reqs[r].arg) <= MAX_ARGUMENT
  /\ (lastDone.state = "done"
        /\ (strlen(lastDone.name) > MAX_NAME
              \/ (lastDone.kind = "function"
                    /\ strlen(lastDone.arg) > MAX_ARGUMENT))) =>
       /\ lastDone.cbCount = (IF lastDone.callback THEN 1 ELSE 0)
       /\ lastDone.callback => (lastDone.cbSync /\ ~lastDone.cbSuccess)
       /\ ~lastDone.spawned /\ lastDone.params = NoParams
       /\ Len(lastDone.outcomes) = 0
       /\ ~lastDone.configEntered /\ flow.pc = "idle"
       /\ ~lastDone.checked /\ ~lastDone.cacheChanged /\ lastCheck = NoCheck

\* C3 witness: a call with a name of 65 bytes was rejected on an unconfigured,
\* connected system (where a valid call would have entered the configurator)
C3_Witness ==
  /\ lastDone.state = "done" /\ lastDone.path = "nameTooLong"
  /\ strlen(lastDone.name) = MAX_NAME + 1
  /\ lastDone.callback /\ lastDone.cbCount = 1 /\ lastDone.cbSync
  /\ ~isConfigured(particleData) /\ wifi

\* C6 (as stated): in a function task, every attempt that was followed by
\* another attempt ended in a read timeout.
C6_RetryOnlyAfterReadTimeout ==
  (lastDone.state = "done" /\ lastDone.kind = "function"
     /\ lastDone.path = "task") =>
    \A i \in 1 .. Len(lastDone.outcomes) - 1 :
      lastDone.outcomes[i].code = HTTPC_ERROR_READ_TIMEOUT

\* C7: with N = PARTICLE_FUNCTION_RETRY_COUNT, a function task makes at
\* least one and at most N + 1 attempts and none after a successful one; if
\* every attempt timed out it made exactly N + 1 and reports failure; if N
\* timeouts were followed by a 200 carrying return_value it reports success
\* with that value.
C7_BoundedAttempts ==
  /\ \A r \in 1 .. Len(reqs) :
       /\ reqs[r].attempt <= PARTICLE_FUNCTION_RETRY_COUNT
       /\ reqs[r].state = "running" => ~reqs[r].success
  /\ (lastDone.state = "done" /\ lastDone.kind = "function"
        /\ lastDone.path = "task") =>
       LET o == lastDone.outcomes
           n == PARTICLE_FUNCTION_RETRY_COUNT
           timeouts == {i \in 1 .. Len(o) : o[i].code = HTTPC_ERROR_READ_TIMEOUT}
       IN  /\ Len(o) >= 1 /\ Len(o) <= n + 1
           /\ \A i \in 1 .. Len(o) - 1 : ~o[i].success
           /\ timeouts = 1 .. Len(o) => (Len(o) = n + 1 /\ ~lastDone.success)
           /\ (Len(o) = n + 1 /\ timeouts = 1 .. n /\ o[n + 1].code = 200) =>
                /\ o[n + 1].body = BodyReturn7 =>
                     (lastDone.success /\ lastDone.value = 7)
                /\ o[n + 1].body = BodyReturnMinus1 =>
                     (lastDone.success /\ lastDone.value = -1)

\* C7 witness: a function task timed out N times, then got 200 with
\* return_value 7, and called back with (7, true)
C7_Witness ==
  /\ lastDone.state = "done" /\ lastDone.kind = "function"
  /\ lastDone.path = "task"
  /\ Len(lastDone.outcomes) = PARTICLE_FUNCTION_RETRY_COUNT + 1
  /\ \A i \in 1 .. PARTICLE_FUNCTION_RETRY_COUNT :
       lastDone.outcomes[i].code = HTTPC_ERROR_READ_TIMEOUT
  /\ lastDone.outcomes[PARTICLE_FUNCTION_RETRY_COUNT + 1].body = BodyReturn7
  /\ lastDone.cbCount = 1 /\ lastDone.cbSuccess /\ lastDone.cbValue = 7

\* C8: a variable task makes exactly one transport attempt, whatever that
\* attempt returns: it is never waiting to make a second one.
C8_VariableSingleAttempt ==
  /\ \A r \in 1 .. Len(reqs) :
       (reqs[r].kind = "variable" /\ reqs[r].state = "running") =>
         reqs[r].attempt = 0
  /\ (lastDone.state = "done" /\ lastDone.kind = "variable"
        /\ lastDone.path = "task") => Len(lastDone.outcomes) = 1

\* C8 witness: a variable task whose only attempt timed out has called back
\* with failure
C8_Witness ==
  /\ lastDone.state = "done" /\ lastDone.kind = "variable"
  /\ lastDone.path = "task"
  /\ lastDone.outcomes[1].code = HTTPC_ERROR_READ_TIMEOUT
  /\ lastDone.cbCount = 1 /\ ~lastDone.cbSuccess

\* C9: a continuation invoked with success = false gets the failure
\* sentinel, -1 for a function call and "" for a variable read, on every
\* path.
C9_FailureSentinel ==
  (lastDone.state = "done" /\ lastDone.cbCount > 0 /\ ~lastDone.cbSuccess) =>
    lastDone.cbValue = Sentinel(lastDone.kind)

\* C9 witness: a function task whose last attempt got a non-200 status after
\* an earlier attempt got 200 without return_value has called back with
\* (-1, false)
C9_Witness ==
  /\ lastDone.state = "done" /\ lastDone.kind = "function"
  /\ lastDone.path = "task" /\ Len(lastDone.outcomes) = 2
  /\ lastDone.outcomes[1].code = 200 /\ lastDone.outcomes[2].code = 404
  /\ lastDone.cbCount = 1 /\ ~lastDone.cbSuccess /\ lastDone.cbValue = -1

\* a request that ended in the call itself, with the failure callback (if a
\* continuation was given) and nothing started for it
RejectedByCall(req) ==
  /\ req.cbCount = (IF req.callback THEN 1 ELSE 0)
  /\ req.callback =>
       (req.cbSync /\ ~req.cbSuccess /\ req.cbValue = Sentinel(req.kind))
  /\ ~req.spawned /\ Len(req.outcomes) = 0
  /\ reqs[Len(reqs)].state = "done"

\* C14: a call with a name and an argument within the limits, made while
\* the store is unconfigured and the network is down, ends in the call
\* itself: the continuation is invoked with failure, the configurator is not
\* entered, no throttle check is made, the cache is as it was and no task
\* is spawned.
C14_OfflineUnconfiguredRejected ==
  /\ (lastDone.state = "done" /\ lastDone.path # "task"
        /\ strlen(lastDone.name) <= MAX_NAME
        /\ strlen(lastDone.arg) <= MAX_ARGUMENT
        /\ ~isConfigured(particleData) /\ ~wifi) => lastDone.path = "noWifi"
  /\ (lastDone.state = "done" /\ lastDone.path = "noWifi") =>
       /\ RejectedByCall(lastDone)
       /\ ~lastDone.configEntered /\ flow.pc = "idle"
       /\ ~lastDone.checked /\ ~lastDone.cacheChanged /\ lastCheck = NoCheck
       /\ lastDone.params = NoParams
       /\ ~isConfigured(particleData) /\ ~wifi

\* C14 witness: a variable read with a name of exactly 64 bytes was made
\* offline on an unconfigured system and called back with ("", false)
C14_Witness ==
  /\ lastDone.state = "done" /\ lastDone.path = "noWifi"
  /\ lastDone.kind = "variable" /\ strlen(lastDone.name) = MAX_NAME
  /\ lastDone.callback /\ lastDone.cbCount = 1 /\ lastDone.cbSync
  /\ ~lastDone.cbSuccess /\ lastDone.cbValue = << >>

\* C15: a call the throttle denies ends in the call itself with the failure
\* callback, no task spawned and no transport attempt made; every request
\* that has a task was checked and admitted.
C15_DeniedNeverSpawns ==
  /\ (lastCheck # NoCheck /\ ~lastCheck.ok) =>
       /\ lastDone.state = "done" /\ lastDone.path = "throttled"
       /\ RejectedByCall(lastDone)
       /\ lastDone.params = NoParams
  /\ (lastDone.state = "done" /\ lastDone.path = "throttled") =>
       (lastCheck # NoCheck /\ ~lastCheck.ok)
  /\ \A r \in 1 .. Len(reqs) :
       (reqs[r].spawned \/ reqs[r].state = "running") =>
         (reqs[r].checked /\ reqs[r].path = "task")
  /\ (lastDone.state = "done" /\ (lastDone.spawned \/ Len(lastDone.outcomes) > 0)) =>
       (lastDone.checked /\ lastDone.path = "task")

\* C15 witness: a second call for an endpoint just admitted was denied and
\* called back by the call itself, while the first request's task is running
C15_Witness ==
  /\ lastCheck # NoCheck /\ ~lastCheck.ok /\ lastCheck.known
  /\ lastDone.state = "done" /\ lastDone.path = "throttled"
  /\ lastDone.callback /\ lastDone.cbCount = 1 /\ lastDone.cbSync
  /\ \E r \in 1 .. Len(reqs) : reqs[r].state = "running"

\* C19: when xTaskCreate fails the call itself invokes the continuation with
\* failure, once, and deletes the block it allocated, once; no task runs for
\* the request and no transport attempt is made for it.  Only a request
\* whose task was created is ever running, and its block is not deleted
\* while it runs.
C19_SpawnFailureHandled ==
  /\ (lastDone.state = "done" /\ lastDone.path = "spawnFailed") =>
       /\ RejectedByCall(lastDone)
       /\ lastDone.freed = 1
       /\ lastDone.checked /\ lastCheck.ok
  /\ \A r \in 1 .. Len(reqs) :
       reqs[r].state = "running" => (reqs[r].spawned /\ reqs[r].freed = 0)
  /\ lastDone.state = "done" =>
       lastDone.freed = (IF lastDone.path \in {"task", "spawnFailed"} THEN 1 ELSE 0)

\* C19 witness: a function call was admitted, its block filled, xTaskCreate
\* failed, and the call called back with (-1, false) and deleted the block
C19_Witness ==
  /\ lastDone.state = "done" /\ lastDone.path = "spawnFailed"
  /\ lastDone.kind = "function" /\ lastDone.params.name = lastDone.name
  /\ lastDone.callback /\ lastDone.cbCount = 1 /\ lastDone.cbSync
  /\ ~lastDone.cbSuccess /\ lastDone.cbValue = -1 /\ lastDone.freed = 1

\* the closing quote of a string whose content starts at position p: the
\* first quote not preceded by a backslash escape (-1 if there is none)
RECURSIVE ClosingQuote(_, _)
ClosingQuote(s, p) ==
  IF p >= Len(s) THEN -1
  ELSE IF charAt(s, p) = "\\" THEN ClosingQuote(s, p + 2)
  ELSE IF charAt(s, p) = "\"" THEN p
  ELSE ClosingQuote(s, p + 1)

\* the extraction the claim describes: the key anywhere in the body, blanks
\* skipped, then a quoted string up to its closing quote (cut to 1024
\* bytes, possibly empty) or a bare token up to ',' or '}' (trimmed)
ReferenceResult(response) ==
  LET resultPos == indexOf(response, ResultKey, 0)
      startPos == SkipBlanks(response, resultPos + Len(ResultKey))
  IN  IF resultPos < 0 THEN [success |-> FALSE, result |-> << >>]
      ELSE IF charAt(response, startPos) = "\""
      THEN LET endPos == ClosingQuote(response, startPos + 1)
           IN  IF endPos < 0 THEN [success |-> FALSE, result |-> << >>]
               ELSE [success |-> TRUE,
                     result |-> Clip(substring(response, startPos + 1, endPos))]
      ELSE [success |-> TRUE,
            result |-> trim(substring(response, startPos,
                                      ScanToken(response, startPos)))]

\* C20 (as stated): a variable task whose attempt returned 200 delivers what
\* the extraction the claim describes yields for the body.
C20_ExtractorMatchesReference ==
  (lastDone.state = "done" /\ lastDone.kind = "variable"
     /\ lastDone.path = "task" /\ lastDone.callback
     /\ lastDone.outcomes[1].code = 200) =>
    LET expected == ReferenceResult(lastDone.outcomes[1].body)
    IN  /\ lastDone.cbSuccess = expected.success
        /\ lastDone.cbValue = expected.result

\* the text is an optional '-' followed by digits only, at least one
IsIntegerText(s) ==
  LET digits == IF charAt(s, 0) = "-" THEN substring(s, 1, Len(s)) ELSE s
  IN  /\ Len(digits) >= 1
      /\ \A i \in 1..Len(digits) : isdigit(digits[i])

\* the reading the claim describes: the return_value field, when present
\* with an integer as its value, gives that integer; anything else is a
\* failure with no value
ReferenceReturnValue(response) ==
  LET returnPos == indexOf(response, ReturnValueKey, 0)
      startPos == SkipBlanks(response, returnPos + Len(ReturnValueKey))
      text == substring(response, startPos, ScanNumber(response, startPos))
  IN  IF returnPos >= 0 /\ IsIntegerText(text)
      THEN [success |-> TRUE, returnValue |-> toInt(text)]
      ELSE [success |-> FALSE, returnValue |-> Sentinel("function")]

\* C21 (as stated): an attempt of a function task succeeds exactly when it
\* returned 200 with an integer return_value field, the continuation then
\* receives that integer, and a 200 body without an integer return_value
\* delivers a failure with the sentinel.
C21_SuccessNeedsIntegerReturnValue ==
  (lastDone.state = "done" /\ lastDone.kind = "function"
     /\ lastDone.path = "task" /\ lastDone.callback) =>
    LET last == lastDone.outcomes[Len(lastDone.outcomes)]
        expected == ReferenceReturnValue(last.body)
    IN  /\ \A n \in 1..Len(lastDone.outcomes) :
              lastDone.outcomes[n].success <=>
                (/\ lastDone.outcomes[n].code = 200
                 /\ ReferenceReturnValue(lastDone.outcomes[n].body).success)
        /\ lastDone.cbSuccess = (last.code = 200 /\ expected.success)
        /\ lastDone.cbValue = IF last.code = 200 THEN expected.returnValue
                              ELSE Sentinel("function")

\* the request that has just ended on a failed spawn left its endpoint in
\* the cache, stamped with the time of the call, and made no attempt
EntryKeptAfterSpawnFailure ==
  (lastDone.state = "done" /\ lastDone.path = "spawnFailed") =>
    /\ Len(lastDone.outcomes) = 0
    /\ \E i \in 0 .. throttleCacheSize - 1 :
          /\ throttleCache[i].endpoint = Endpoint(lastDone.kind, lastDone.name)
          /\ throttleCache[i].lastCall = millis

\* a call for the same endpoint that follows the failed spawn within the
\* window is denied
RepeatAfterSpawnFailureDenied ==
  (/\ lastDone.state = "done" /\ lastDone.path = "spawnFailed"
   /\ lastCheck' # NoCheck
   /\ lastCheck'.endpoint = Endpoint(lastDone.kind, lastDone.name)
   /\ lastCheck'.since < ThrottleWindow) =>
    (/\ lastCheck'.known /\ ~lastCheck'.ok
     /\ lastDone'.state = "done" /\ lastDone'.path = "throttled")

\* C24: the throttle entry an admitting checkThrottle call wrote stays when
\* the task spawn that follows fails, so a repeat call for the same endpoint
\* within the window is denied although no request was sent for it.
C24_SpawnFailureKeepsEntry ==
  []EntryKeptAfterSpawnFailure /\ [][RepeatAfterSpawnFailureDenied]_vars

\* C24 witness: the first call was admitted and its spawn failed, no task
\* has ever run, and the second call, for the same endpoint, has been denied
C24_Witness ==
  /\ Len(reqs) = 2
  /\ reqs[1].state = "done" /\ reqs[1].path = "spawnFailed"
  /\ lastDone.state = "done" /\ lastDone.path = "throttled"
  /\ lastDone.kind = reqs[1].kind
  /\ lastCheck.known /\ ~lastCheck.ok /\ lastCheck.since = 0
  /\ throttleCacheSize = 1

(***************************************************************************)
(* Claims about requests in flight while the store changes (specification  *)
(* SpecSnapshot).                                                          *)
(***************************************************************************)
\* every attempt req has made sent the credentials in its block
SentFromBlock(req) ==
  \A i \in 1 .. Len(req.outcomes) :
    /\ req.outcomes[i].apiKey = req.params.apiKey
    /\ req.outcomes[i].deviceId = req.params.deviceId

\* the block of req holds the pair pd
BlockHolds(req, pd) ==
  req.params.apiKey = pd.apiKey /\ req.params.deviceId = pd.deviceId

\* the blocks hold what the store held at spawn, and the attempts sent it
BlocksAreSnapshots ==
  /\ \A r \in 1 .. Len(reqs) :
       reqs[r].state = "running" =>
         (SentFromBlock(reqs[r]) /\ isConfigured(reqs[r].params))
  /\ (lastDone.state = "done" /\ lastDone.path = "task") =>
       (SentFromBlock(lastDone) /\ isConfigured(lastDone.params))
  /\ (lastCheck # NoCheck /\ lastCheck.ok) =>
       IF lastDone.state = "done"
       THEN BlockHolds(lastDone, particleData)
       ELSE BlockHolds(reqs[Len(reqs)], particleData)

\* a step leaves the block of every running request as it is
BlocksKept ==
  \A r \in 1 .. Len(reqs) :
    reqs[r].state = "running" =>
      /\ (reqs'[r].state = "running" => reqs'[r].params = reqs[r].params)
      /\ (reqs'[r].state = "done" =>
            (lastDone'.path = "task" /\ lastDone'.params = reqs[r].params))

\* C18: the block of a request holds the pair the store held when the call
\* spawned it (or failed to), the block of a running request does not
\* change, whatever is done to the store meanwhile, and every attempt of
\* the task, the first and the retry, sends the pair in the block.
C18_TaskUsesSnapshot == []BlocksAreSnapshots /\ [][BlocksKept]_vars

\* C18 witness: a function task has finished after a retry, both attempts
\* having sent the pair stored at spawn, while the store holds another pair
\* the operator configured in between
C18_Witness ==
  /\ lastDone.state = "done" /\ lastDone.path = "task"
  /\ lastDone.kind = "function" /\ Len(lastDone.outcomes) = 2
  /\ lastDone.outcomes[2].apiKey = Key("k")
  /\ lastDone.outcomes[2].deviceId = Device("k")
  /\ particleData = [apiKey |-> Key("m"), deviceId |-> Device("m")]

(***************************************************************************)
(* Claims about the throttle gate (specification SpecThrottle).            *)
(***************************************************************************)
\* C4 (as stated): for an endpoint the cache holds, a call made less than the
\* throttle window after the endpoint's last admitted call is denied, a call
\* made at or after the window since that call is admitted, and a denied
\* call leaves the cache as it was.  Time is the time that really passed.
C4_WindowByElapsedTime ==
  (lastCheck.known /\ lastCheck.since >= 0) =>
    /\ (lastCheck.since < ThrottleWindow => ~lastCheck.ok)
    /\ (lastCheck.since >= ThrottleWindow => lastCheck.ok)
    /\ (~lastCheck.ok => ~lastCheck.changed)

\* C5: with the cache full, a call for an endpoint the cache does not hold
\* is admitted and changes nothing, and a call for an endpoint it holds is
\* admitted or denied by that endpoint's own window on the counter.
C5_FullCacheFailsOpen ==
  lastCheck.full =>
    /\ throttleCacheSize = PARTICLE_THROTTLE_CACHE_SIZE
    /\ IF lastCheck.known
       THEN lastCheck.ok <=> (lastCheck.since % MillisModulus >= ThrottleWindow)
       ELSE lastCheck.ok /\ ~lastCheck.changed

\* C5 witness: a full cache that holds an observed endpoint has admitted a
\* call for an endpoint it does not hold
C5_Witness ==
  /\ lastCheck.full /\ ~lastCheck.known /\ lastCheck.ok
  /\ \E e \in TestEndpoints : InCache(e)

\* the cache holds at most its capacity, and no endpoint twice
CacheShape ==
  /\ throttleCacheSize \in 0 .. PARTICLE_THROTTLE_CACHE_SIZE
  /\ \A i, j \in 0 .. throttleCacheSize - 1 :
        i # j => throttleCache[i].endpoint # throttleCache[j].endpoint

\* a step leaves every entry in its slot under its key, and removes none
CacheGrowsOnly ==
  /\ throttleCacheSize' >= throttleCacheSize
  /\ \A i \in 0 .. throttleCacheSize - 1 :
        throttleCache'[i].endpoint = throttleCache[i].endpoint

\* C22: the throttle cache always holds at most
\* PARTICLE_THROTTLE_CACHE_SIZE entries and at most one per endpoint key;
\* throttleCacheSize never decreases, no entry is removed or moved, and the
\* key of an entry never changes.
C22_CacheShapeAndGrowth == []CacheShape /\ [][CacheGrowsOnly]_vars

\* C22 witness: in a full cache, a call for an endpoint held in a slot other
\* than the first has been admitted and has refreshed that entry's lastCall
C22_Witness ==
  /\ throttleCacheSize = PARTICLE_THROTTLE_CACHE_SIZE
  /\ lastCheck.known /\ lastCheck.ok /\ lastCheck.changed
  /\ throttleCache[0].endpoint # lastCheck.endpoint
  /\ \E i \in 1 .. throttleCacheSize - 1 :
        /\ throttleCache[i].endpoint = lastCheck.endpoint
        /\ throttleCache[i].lastCall = millis

\* C25: for an endpoint key the cache holds, checkThrottle denies the call
\* exactly when (now - lastCall) modulo 2^w of the millisecond counter is
\* below the window, lastCall being the counter at the key's last admitted
\* call; so what decides is the time since that call modulo the counter's
\* period, across a wrap and after whole periods alike.
C25_DecisionIsModularDifference ==
  (lastCheck.known /\ lastCheck.since >= 0) =>
    /\ ~lastCheck.ok <=> (lastCheck.since % MillisModulus < ThrottleWindow)
    /\ \A i \in 0 .. throttleCacheSize - 1 :
          throttleCache[i].endpoint = lastCheck.endpoint =>
            ((millis - throttleCache[i].lastCall) + MillisModulus) % MillisModulus
              = IF lastCheck.ok THEN 0 ELSE lastCheck.since % MillisModulus

\* C25 witness: a call made a whole counter period after the endpoint's last
\* admitted call has been denied
C25_Witness ==
  /\ lastCheck.known /\ ~lastCheck.ok
  /\ lastCheck.since >= MillisModulus
  /\ lastCheck.since % MillisModulus < ThrottleWindow

BlobOf(pd) == SetBlob(NoBlob, TRUE, pd)

\* the pair serialConfigure held when it called validateCredentials
Candidate == [apiKey |-> lastEvent.tempApiKey, deviceId |-> lastEvent.tempDeviceId]

C12_ExactLineLength ==
  /\ lastEvent.op = "apiKey" =>
       IF ~lastEvent.disabled /\ strlen(lastEvent.line) = MAX_API_KEY
       THEN flow.pc = "deviceId" /\ flow.tempApiKey = lastEvent.line
       ELSE flow.pc = "apiKey" /\ flow.tempApiKey = EmptyStr
  /\ lastEvent.op = "deviceId" =>
       IF ~lastEvent.disabled /\ strlen(lastEvent.line) = MAX_DEVICE_ID
       THEN flow.pc = "validate" /\ flow.tempDeviceId = lastEvent.line
       ELSE flow.pc = "deviceId" /\ flow.tempDeviceId = EmptyStr

\* C13: apiKey and deviceId are both empty or both non-empty, and
\* isConfigured() is true exactly when both are non-empty, after
\* construction over whatever NVS holds and after every configuration,
\* reconfiguration and clear.
C13_BothOrNeither ==
  /\ (strlen(particleData.apiKey) = 0) <=> (strlen(particleData.deviceId) = 0)
  /\ isConfigured(particleData) <=>
       (strlen(particleData.apiKey) > 0 /\ strlen(particleData.deviceId) > 0)
  /\ isConfigured(particleData) =>
       /\ strlen(particleData.apiKey) = MAX_API_KEY
       /\ strlen(particleData.deviceId) = MAX_DEVICE_ID

\* C13 witness: after a restart, a configured instance has been cleared at
\* the operator's confirmation
C13_Witness ==
  /\ boot.restarts > 0
  /\ lastEvent.op = "confirm" /\ isConfigured(lastEvent.pd)
  /\ ~isConfigured(particleData)
  /\ strlen(particleData.apiKey) = 0 /\ strlen(particleData.deviceId) = 0

\* C16 (as stated): at every connection event, the first and the later ones
\* alike, the callback enters the configurator if the store is unconfigured
\* and otherwise leaves the flow and the credentials as they are.
C16_EveryConnectionChecks ==
  lastEvent.op = "connection" =>
    /\ particleData = lastEvent.pd /\ nvs = lastEvent.blob
    /\ IF ~isConfigured(lastEvent.pd)
       THEN flow.pc = "apiKey" /\ flow.caller = "onConnection"
       ELSE flow.pc = "idle"

\* C16 (amended): at the first connection event (connectionCount = 1) the
\* callback enters the configurator if the store is unconfigured and
\* otherwise leaves the flow and the credentials as they are; at every later
\* connection event it does nothing, configured or not.
C16_FirstConnectionChecks ==
  lastEvent.op = "connection" =>
    /\ particleData = lastEvent.pd /\ nvs = lastEvent.blob
    /\ IF lastEvent.count = 1 /\ ~isConfigured(lastEvent.pd)
       THEN flow.pc = "apiKey" /\ flow.caller = "onConnection"
       ELSE flow.pc = "idle"

\* C16 witness: a reconnection has found the store unconfigured and the
\* callback has not entered the configurator
C16_Witness ==
  /\ lastEvent.op = "connection" /\ lastEvent.count > 1
  /\ ~isConfigured(lastEvent.pd) /\ flow.pc = "idle"

\* whether the step just taken changed the credentials, in memory or in NVS
StoreChanged == particleData # lastEvent.pd \/ nvs # lastEvent.blob

\* C17 (as stated): the clear command changes the credentials, in memory or
\* in NVS, only when the line typed at its prompt is y or Y; after any
\* other line, or none, and when nothing is configured, they are as they
\* were.
C17_ClearOnlyOnYes ==
  /\ lastEvent.op = "cliClear" => ~StoreChanged
  /\ lastEvent.op = "confirm" =>
       IF ~lastEvent.disabled /\ lastEvent.line \in {Str("y", 1), Str("Y", 1)}
       THEN /\ particleData = EmptyCreds /\ boot.op = "clear"
            /\ nvs = (IF boot.took THEN NoBlob ELSE lastEvent.blob)
       ELSE ~StoreChanged

\* C17 (amended): the clear command changes the credentials only when the
\* line typed at its prompt begins with y or Y (one byte of the line is
\* kept: yes, or y followed by anything, confirms as y does); after a line
\* that begins otherwise, an empty line or none, and when nothing is
\* configured, they are as they were.
C17_ClearOnlyOnLeadingYes ==
  /\ lastEvent.op = "cliClear" =>
       /\ ~StoreChanged
       /\ ~isConfigured(lastEvent.pd) => flow.pc = "idle"
  /\ lastEvent.op = "confirm" =>
       IF ~lastEvent.disabled /\ strlen(lastEvent.line) > 0
            /\ lastEvent.line.ch \in {"y", "Y"}
       THEN /\ particleData = EmptyCreds /\ boot.op = "clear"
            /\ nvs = (IF boot.took THEN NoBlob ELSE lastEvent.blob)
       ELSE ~StoreChanged

\* C17 witness: the operator answered n and the credentials, in memory and
\* in NVS, are those of before
C17_Witness ==
  /\ lastEvent.op = "confirm" /\ ~lastEvent.disabled
  /\ lastEvent.line = Str("n", 1)
  /\ isConfigured(particleData) /\ particleData = lastEvent.pd
  /\ nvs.present /\ nvs = lastEvent.blob

(***************************************************************************)
(* Claims about the configurator's exit seen from the two calls            *)
(* (specification Spec).                                                   *)
(***************************************************************************)
\* the positions of the control flow inside serialConfigure
InsideConfigure == {"apiKey", "deviceId", "validate"}

\* no call has taken the branch that follows serialConfigure when the
\* system is still unconfigured; a call that went through serialConfigure
\* went on to the throttle gate; with serial input disabled the
\* configurator stays at its first prompt with nothing entered
NeverStillUnconfigured ==
  /\ lastDone.path # "stillUnconfigured"
  /\ \A r \in 1 .. Len(reqs) :
       /\ reqs[r].path # "stillUnconfigured"
       /\ (reqs[r].state = "configuring") <=>
            (flow.pc \in InsideConfigure /\ flow.caller = "call" /\ flow.req = r)
       /\ (reqs[r].configEntered /\ reqs[r].state # "configuring") =>
            (reqs[r].checked /\ isConfigured(particleData))
  /\ (lastDone.state = "done" /\ lastDone.configEntered) =>
       (lastDone.checked /\ isConfigured(particleData))
  /\ (serialInputDisable /\ flow.pc # "idle") =>
       (flow.pc = "apiKey" /\ strlen(flow.tempApiKey) = 0)

\* a step that takes the control flow out of serialConfigure is the return
\* of validateCredentials with true (connected, ping answered 200) for the
\* pair just entered, and leaves that pair, both parts non-empty, in memory
ReturnsOnlyValidated ==
  (flow.pc \in InsideConfigure /\ flow'.pc \notin InsideConfigure) =>
    /\ flow.pc = "validate" /\ flow'.pc = "idle"
    /\ lastEvent'.op = "validate"
    /\ lastEvent'.connected /\ lastEvent'.httpCode = 200
    /\ particleData' = [apiKey |-> flow.tempApiKey,
                        deviceId |-> flow.tempDeviceId]
    /\ isConfigured(particleData')

\* C26: serialConfigure returns only after validateCredentials returned true
\* for the pair just entered, and on return both credentials in memory are
\* non-empty; so the "still not configured" branch after serialConfigure in
\* the two calls is never taken, and while no entered pair validates (serial
\* input disabled included) serialConfigure does not return.
C26_ConfigureReturnsConfigured ==
  []NeverStillUnconfigured /\ [][ReturnsOnlyValidated]_vars

\* C26 witness: a call found the system unconfigured, went through
\* serialConfigure, whose validation has just returned true, and went on to
\* spawn its task with the pair entered
C26_Witness ==
  /\ lastEvent.op = "validate" /\ lastEvent.httpCode = 200
  /\ ~isConfigured(lastEvent.pd)
  /\ flow.pc = "idle" /\ isConfigured(particleData)
  /\ \E r \in 1 .. Len(reqs) :
       /\ reqs[r].configEntered /\ reqs[r].state = "running"
       /\ reqs[r].params.apiKey = particleData.apiKey
       /\ reqs[r].params.deviceId = particleData.deviceId

(***************************************************************************)
(* Claims about checkThrottle entered by two flows (specification          *)
(* SpecRace).                                                              *)
(***************************************************************************)
\* the latest calls of flows f and g were both admitted, for the same
\* endpoint, less than the window apart
BothAdmitted(f, g) ==
  /\ gate[f].result = "admitted" /\ gate[g].result = "admitted"
  /\ gate[f].endpoint = gate[g].endpoint
  /\ gate[f].at - gate[g].at < ThrottleWindow
  /\ gate[g].at - gate[f].at < ThrottleWindow

\* the latest calls of flows f and g wrote their new entries to one slot
SameSlotWritten(f, g) == gate[f].slot >= 0 /\ gate[f].slot = gate[g].slot

\* C23 (as stated): the scan-and-update sequence of checkThrottle is
\* mutually exclusive between flows: two calls for the same endpoint within
\* the window are never both admitted, two calls for new endpoints never
\* write the same cache slot, and throttleCacheSize never exceeds the
\* capacity.
C23_GateMutuallyExclusive ==
  /\ throttleCacheSize <= PARTICLE_THROTTLE_CACHE_SIZE
  /\ \A f, g \in Flows :
       f # g => (~BothAdmitted(f, g) /\ ~SameSlotWritten(f, g))

====
